---- MODULE Spec2Model ----
(***************************************************************************)
(* Model of weasyprint/draw/text.py: draw_text, draw_emojis,               *)
(* draw_first_line and draw_text_decoration.                               *)
(*                                                                         *)
(* The pydyf stream is the sequence of operator calls made on it, the      *)
(* Pango layout of a textbox is its text plus the sequence of calls made   *)
(* on it, the stream's font registry is a map from font identity to a      *)
(* FontResource (widths and cmap).  The shaping engine is a collaborator:  *)
(* get_first_line is a point where draw_first_line waits for its answer,   *)
(* and the answer (how many characters fit on the first line) is chosen    *)
(* freely at each call.                                                    *)
(***************************************************************************)
EXTENDS Integers, Sequences, FiniteSets, TLC

(***************************************************************************)
(* Bounds                                                                  *)
(***************************************************************************)
\* longest textbox text, in characters
MaxLen == 4
\* longest text of the textboxes that two documents draw in opposite orders
MaxSharedLen == 2

(***************************************************************************)
(* Values of the host language                                             *)
(***************************************************************************)
\* Python None, for the optional integers (index, last_word_end, max_width)
None == -1
\* `if x:` on an optional integer
Truthy(x) == x # None /\ x # 0
\* the unset local variable `ellipsis` and the unset `last_font`
Unbound == <<"unbound">>
NoFont == "None"

Max(S) == CHOOSE x \in S : \A y \in S : y <= x
Min2(a, b) == IF a < b THEN a ELSE b
Max2(a, b) == IF a > b THEN a ELSE b
Last(s) == s[Len(s)]
Front(s) == SubSeq(s, 1, Len(s) - 1)

RECURSIVE SumSeq(_)
SumSeq(s) == IF s = <<>> THEN 0 ELSE s[1] + SumSeq(Tail(s))

(***************************************************************************)
(* Characters, fonts and glyphs known to the shaping engine                *)
(***************************************************************************)
TAB == "U+0009"
HYPHEN == "-"
HELLIP == "U+2026"
EMOJI == "U+1F600"
\* characters a textbox text is made of
Alphabet == {"a", HYPHEN, TAB, "^", EMOJI}

PANGO_SCALE == 1024
PANGO_GLYPH_EMPTY == 268435455
PANGO_GLYPH_UNKNOWN_FLAG == 268435456

\* str.isspace, as used by str.strip
IsSpace(c) == c = TAB
\* characters that belong to words (Pango log attrs)
IsWordChar(c) == c \in {"a", EMOJI}
\* number of bytes of the character in UTF-8
Utf8Len(c) == CASE c = HELLIP -> 3 [] c = EMOJI -> 4 [] OTHER -> 1

\* What the shaping engine makes of one character at font size 1: the font
\* (face) and item (script) it is itemized into, its glyph, the advance
\* width and the positioning offsets in Pango units.
CharShape(c) ==
  CASE c = "a"    -> [face |-> "F1", item |-> 1, glyph |-> 1,
                      width |-> 512, x_offset |-> 0, y_offset |-> 0]
    [] c = HYPHEN -> [face |-> "F1", item |-> 2, glyph |-> 3,
                      width |-> 512, x_offset |-> 0, y_offset |-> 0]
    [] c = "^"    -> [face |-> "F1", item |-> 1, glyph |-> 4,
                      width |-> 300, x_offset |-> 10, y_offset |-> 200]
    [] c = HELLIP -> [face |-> "F1", item |-> 1, glyph |-> 5,
                      width |-> 1024, x_offset |-> 10, y_offset |-> 0]
    [] c = EMOJI  -> [face |-> "F2", item |-> 1, glyph |-> 7,
                      width |-> 1127, x_offset |-> 0, y_offset |-> 0]
    [] c = TAB    -> [face |-> "F1", item |-> 1, glyph |-> PANGO_GLYPH_EMPTY,
                      width |-> 2048, x_offset |-> 0, y_offset |-> 0]

Faces == {"F1", "F2"}
\* Font.bitmap, Font.svg, Font.png, Font.upem
FontBitmap(face) == face = "F2"
FontSvg(face) == face = "F1"
FontPng(face) == face = "F2"
FontUpem(face) == 1000
\* get_hb_object_data(font.hb_face, 'svg', glyph) is not empty
SvgData(face, glyph) == face = "F1" /\ glyph = 4
\* get_hb_object_data(font.hb_font, 'png', glyph) is not empty
PngData(face, glyph) == face = "F2" /\ glyph = 7
\* pillow_image.width, pillow_image.height
ImageWidth(face, glyph) == 2
ImageHeight(face, glyph) == 1

\* logical_rect of pango_font_get_glyph_extents at font size 1 (Pango units)
LogicalRect(face, glyph) ==
  CASE face = "F1" /\ glyph = 4 -> [width |-> 300, y |-> -800, height |-> 1000]
    [] face = "F1" /\ glyph = 5 -> [width |-> 1024, y |-> -800, height |-> 1000]
    [] face = "F2"              -> [width |-> 1024, y |-> -900, height |-> 1024]
    [] OTHER                    -> [width |-> 512, y |-> -800, height |-> 1000]

(***************************************************************************)
(* Font sizes: the rational n / d, d > 0                                   *)
(***************************************************************************)
FontSizes == {[n |-> -1, d |-> 1], [n |-> 0, d |-> 1],
              [n |-> 1, d |-> 10000000], [n |-> 2, d |-> 1]}
\* sizes of the textboxes that share a FontResource
SharedSizes == {[n |-> 1, d |-> 1], [n |-> 2, d |-> 1]}
\* `font_size < 1e-6`
BelowPrecision(fs) == fs.n * 1000000 < fs.d
\* a length of the font at size 1, at the font's size (Pango units)
AtSize(v, fs) == (v * fs.n) \div fs.d

\* int(round(n / d)), n >= 0, d > 0: Python rounds half to even
RoundHalfEven(n, d) ==
  LET q == n \div d
      r == n % d
  IN IF 2 * r < d THEN q
     ELSE IF 2 * r > d THEN q + 1
     ELSE IF q % 2 = 0 THEN q ELSE q + 1
\* int(n / d), d > 0: Python truncates toward zero
Trunc(n, d) == IF n >= 0 THEN n \div d ELSE -((-n) \div d)

(***************************************************************************)
(* Text: a sequence of characters                                          *)
(***************************************************************************)
RECURSIVE TextsOfLen(_)
TextsOfLen(n) ==
  IF n = 0 THEN {<<>>}
  ELSE {Append(t, c) : t \in TextsOfLen(n - 1), c \in Alphabet}
Texts == UNION {TextsOfLen(n) : n \in 0..MaxLen}

\* IsBlank that takes only the empty text for blank
IsBlankEmptyOnly(text) == text = <<>>
\* not text.strip()
IsBlank(text) == \A i \in 1..Len(text) : IsSpace(text[i])
\* text.endswith(suffix)
EndsWith(text, suffix) ==
  /\ Len(suffix) <= Len(text)
  /\ SubSeq(text, Len(text) - Len(suffix) + 1, Len(text)) = suffix
\* text[:p], p >= 0
SliceTo(text, p) == SubSeq(text, 1, Min2(p, Len(text)))
\* text[:-k], k >= 0 (text[:-0] is text[:0], the empty string)
SliceToNeg(text, k) ==
  IF k = 0 THEN <<>> ELSE SubSeq(text, 1, Max2(Len(text) - k, 0))

\* text.encode(): the bytes of the text, byte j of character c is <<c, j>>
RECURSIVE Utf8Encode(_)
Utf8Encode(text) ==
  IF text = <<>> THEN <<>>
  ELSE [j \in 1..Utf8Len(text[1]) |-> <<text[1], j>>] \o Utf8Encode(Tail(text))
\* bytes[a:b]
ByteSlice(bytes, a, b) == SubSeq(bytes, a + 1, Min2(b, Len(bytes)))
\* the bytes are whole characters
RECURSIVE Utf8Valid(_)
Utf8Valid(bytes) ==
  IF bytes = <<>> THEN TRUE
  ELSE LET c == bytes[1][1]
           n == Utf8Len(c)
       IN /\ n <= Len(bytes)
          /\ \A j \in 1..n : bytes[j] = <<c, j>>
          /\ Utf8Valid(SubSeq(bytes, n + 1, Len(bytes)))
\* bytes.decode() of valid bytes
RECURSIVE Utf8Decode(_)
Utf8Decode(bytes) ==
  IF bytes = <<>> THEN <<>>
  ELSE <<bytes[1][1]>>
       \o Utf8Decode(SubSeq(bytes, Utf8Len(bytes[1][1]) + 1, Len(bytes)))
\* byte offset of the end of the first k characters
ByteOffset(text, k) == SumSeq([i \in 1..k |-> Utf8Len(text[i])])

\* a word ends after character p
IsWordEnd(text, p) ==
  /\ IsWordChar(text[p])
  /\ (p = Len(text) \/ ~IsWordChar(text[p + 1]))
\* number of words of the text
WordCount(text) == Cardinality({p \in 1..Len(text) : IsWordEnd(text, p)})
\* get_last_word_end(text, lang): the last word end before the end of the
\* text, None when there is none
get_last_word_end(text) ==
  IF Len(text) < 2 THEN None
  ELSE LET ends == {p \in 1..(Len(text) - 1) : IsWordEnd(text, p)}
       IN IF ends = {} THEN None ELSE Max(ends)

(***************************************************************************)
(* The shaping engine's side of pango_layout.get_first_line                *)
(***************************************************************************)
SameItem(c1, c2) ==
  /\ CharShape(c1).face = CharShape(c2).face
  /\ CharShape(c1).item = CharShape(c2).item
\* last character of the run that starts at character s
RunEnd(text, s) ==
  Max({e \in s..Len(text) : \A k \in s..e : SameItem(text[s], text[k])})
\* PangoGlyphInfo of character c at font size fs
GlyphInfo(c, fs) ==
  [glyph |-> CharShape(c).glyph,
   geometry |-> [width |-> AtSize(CharShape(c).width, fs),
                 x_offset |-> AtSize(CharShape(c).x_offset, fs),
                 y_offset |-> AtSize(CharShape(c).y_offset, fs)]]
\* PangoGlyphItem: one glyph per character, clusters in byte offsets from the
\* start of the item; first is the position in the line of its first glyph
GlyphItem(text, s, e, fs) ==
  [font |-> CharShape(text[s]).face,
   offset |-> ByteOffset(text, s - 1),
   length |-> ByteOffset(text, e) - ByteOffset(text, s - 1),
   num_glyphs |-> e - s + 1,
   glyphs |-> [k \in 1..(e - s + 1) |-> GlyphInfo(text[s + k - 1], fs)],
   log_clusters |-> [k \in 1..(e - s + 1) |->
                       ByteOffset(text, s + k - 2) - ByteOffset(text, s - 1)],
   first |-> s]
RECURSIVE RunsFrom(_, _, _)
RunsFrom(text, s, fs) ==
  IF s > Len(text) THEN <<>>
  ELSE <<GlyphItem(text, s, RunEnd(text, s), fs)>>
       \o RunsFrom(text, RunEnd(text, s) + 1, fs)
\* (first_line, index) when the engine puts `fit` characters on the first
\* line: index is the byte offset of the second line, None without one
FirstLine(text, fit, fs) ==
  [runs |-> RunsFrom(SliceTo(text, fit), 1, fs),
   index |-> IF fit < Len(text) THEN ByteOffset(text, fit) ELSE None]

(***************************************************************************)
(* Stream operators and show_text strings                                  *)
(***************************************************************************)
Op(name) == [op |-> name]
ShowText(string) == [op |-> "show_text", string |-> string]
SetTextRise(n, d) == [op |-> "set_text_rise", n |-> n, d |-> d]
SetFontSize(font, size) == [op |-> "set_font_size", font |-> font, size |-> size]
DrawLine(kind) == [op |-> "draw_line", kind |-> kind]

\* pieces of a show_text string: '<', '>', a number n/d, a glyph code of 2 or
\* 4 hex digits (pos: which glyph of the line the code was written for)
LT == [t |-> "<"]
GT == [t |-> ">"]
Num(what, n, d) == [t |-> "num", what |-> what, n |-> n, d |-> d]
Code(glyph, digits, pos) ==
  [t |-> "glyph", glyph |-> glyph, digits |-> digits, pos |-> pos]

\* close the last glyphs list, remove if empty
CloseList(string) ==
  IF Last(string).t = "<" THEN Front(string) ELSE Append(string, GT)

(***************************************************************************)
(* FontResource registry                                                   *)
(***************************************************************************)
EmptyMap == [x \in {} |-> 0]
\* d[k] = v
Put(d, k, v) == [x \in DOMAIN d \cup {k} |-> IF x = k THEN v ELSE d[x]]
NewFont == [widths |-> EmptyMap, cmap |-> EmptyMap]
\* stream.add_font(pango_font): the FontResource of the font, made on first use
add_font(fonts, face) ==
  IF face \in DOMAIN fonts THEN fonts ELSE Put(fonts, face, NewFont)

\* SetDefault without the membership test: every encounter assigns
SetDefaultOverwrite(d, k, v) == Put(d, k, v)
\* `if k not in d: d[k] = v` (the widths and cmap caches)
SetDefault(d, k, v) == IF k \in DOMAIN d THEN d ELSE Put(d, k, v)

(***************************************************************************)
(* draw_first_line: the glyph run encoder                                  *)
(***************************************************************************)
\* FontChanged that takes every run for a new font
FontChangedAlways(font, last_font) == TRUE
\* `font != last_font`
FontChanged(font, last_font) == font # last_font

\* int(round(units_to_double(logical_rect.width * 1000) / font_size))
GlyphWidth(face, glyph, fs) ==
  RoundHalfEven(AtSize(LogicalRect(face, glyph).width, fs) * 1000 * fs.d,
                PANGO_SCALE * fs.n)

\* Kerning that leaves the offset out
KerningWithoutOffset(declared, width, x_offset, fs) ==
  Trunc(declared * PANGO_SCALE * fs.n - width * 1000 * fs.d,
        PANGO_SCALE * fs.n)
\* int(font.widths[glyph] - units_to_double(width * 1000) / font_size + offset)
\* with offset = x_offset / font_size
Kerning(declared, width, x_offset, fs) ==
  Trunc(declared * PANGO_SCALE * fs.n - width * 1000 * fs.d
          + x_offset * PANGO_SCALE * fs.d,
        PANGO_SCALE * fs.n)

\* ShowGlyph that appends every glyph to the current string
ShowGlyphBatched(ops, string, code, x_offset, y_offset, fs) ==
  [ops |-> ops,
   string |-> string
              \o (IF x_offset # 0
                  THEN <<GT, Num("offset", -x_offset * fs.d, fs.n), LT>>
                  ELSE <<>>)
              \o <<code>>]
\* the glyph code and its positioning: alone between two text rises when the
\* glyph has a rise, appended to the current string otherwise
ShowGlyph(ops, string, code, x_offset, y_offset, fs) ==
  IF y_offset # 0
  THEN [ops |-> ops \o
                <<ShowText(CloseList(string)),
                  SetTextRise(-y_offset, 1000),
                  ShowText((IF x_offset # 0
                            THEN <<Num("offset", -x_offset * fs.d, fs.n)>>
                            ELSE <<>>) \o <<LT, code, GT>>),
                  SetTextRise(0, 1)>>,
        string |-> <<LT>>]
  ELSE [ops |-> ops,
        string |-> string
                   \o (IF x_offset # 0
                       THEN <<GT, Num("offset", -x_offset * fs.d, fs.n), LT>>
                       ELSE <<>>)
                   \o <<code>>]

\* `previous_utf8_position = utf8_position`, after the cmap entry
NextPrevious(previous, utf8_position, inserted) == utf8_position

\* the emoji of the glyph, if its font holds an image for it
EmojiOf(face, glyph, declared, x_advance, fs) ==
  IF FontSvg(face)
  THEN IF SvgData(face, glyph)
       THEN <<[image |-> <<"svg", glyph>>, font |-> face,
               a |-> [n |-> declared * fs.n, d |-> 1000 * FontUpem(face) * fs.d],
               d |-> [n |-> declared * fs.n, d |-> 1000 * FontUpem(face) * fs.d],
               e |-> [n |-> x_advance, d |-> 1000 * fs.n],
               f |-> [n |-> 0, d |-> 1]]>>
       ELSE <<>>
  ELSE IF FontPng(face) /\ PngData(face, glyph)
       THEN LET rect == LogicalRect(face, glyph)
                below == AtSize(-rect.y - rect.height, fs)
            IN <<[image |-> <<"png", glyph>>, font |-> face,
                  a |-> [n |-> ImageWidth(face, glyph) * declared,
                         d |-> ImageHeight(face, glyph) * 1000],
                  d |-> [n |-> declared, d |-> 1000],
                  e |-> [n |-> x_advance, d |-> 1000 * fs.n],
                  f |-> [n |-> below * fs.d * fs.d
                                 - PANGO_SCALE * fs.n * fs.n,
                         d |-> PANGO_SCALE * fs.n * fs.d]]>>
       ELSE <<>>

\* One pass of `for i in range(num_glyphs)`.  e holds the local variables of
\* draw_first_line, the operators written so far, the font registry and the
\* list of cache assignments made.
GlyphStep(e, run, i, fs, utf8_text) ==
  LET glyph_info == run.glyphs[i]
      glyph == glyph_info.glyph
      width == glyph_info.geometry.width
      font == run.font
      utf8_position ==
        IF i < run.num_glyphs THEN run.offset + run.log_clusters[i + 1]
        ELSE run.offset + run.length
      x_offset == glyph_info.geometry.x_offset
      y_offset == glyph_info.geometry.y_offset
      code == Code(glyph, IF FontBitmap(font) THEN 2 ELSE 4, run.first + i - 1)
      shown == ShowGlyph(e.ops, e.string, code, x_offset, y_offset, fs)
      resource == e.fonts[font]
      widths == SetDefault(resource.widths, glyph, GlyphWidth(font, glyph, fs))
      kerning == Kerning(widths[glyph], width, x_offset, fs)
      string == IF kerning # 0
                THEN shown.string \o <<GT, Num("kerning", kerning, 1), LT>>
                ELSE shown.string
      utf8_slice == ByteSlice(utf8_text, e.previous_utf8_position, utf8_position)
      inserted == glyph \notin DOMAIN resource.cmap
      cmap == SetDefault(resource.cmap, glyph, Utf8Decode(utf8_slice))
      written == (IF widths # resource.widths
                  THEN <<<<font, "widths", glyph>>>> ELSE <<>>)
                 \o (IF cmap # resource.cmap
                     THEN <<<<font, "cmap", glyph>>>> ELSE <<>>)
  IN IF glyph = PANGO_GLYPH_EMPTY
        \/ (glyph \div PANGO_GLYPH_UNKNOWN_FLAG) % 2 = 1
     THEN [e EXCEPT !.string =
             @ \o <<GT, Num("empty", -width * fs.d, fs.n), LT>>]
     ELSE IF inserted /\ ~Utf8Valid(utf8_slice)
     THEN [e EXCEPT !.ops = shown.ops, !.string = string,
                    !.fonts = Put(@, font, [resource EXCEPT !.widths = widths]),
                    !.writes = @ \o (IF widths # resource.widths
                                     THEN <<<<font, "widths", glyph>>>>
                                     ELSE <<>>),
                    !.exception = "UnicodeDecodeError"]
     ELSE [e EXCEPT
             !.ops = shown.ops,
             !.string = string,
             !.fonts = Put(@, font, [widths |-> widths, cmap |-> cmap]),
             !.writes = @ \o written,
             !.previous_utf8_position =
                NextPrevious(@, utf8_position, inserted),
             !.emojis = @ \o EmojiOf(font, glyph, widths[glyph],
                                     e.x_advance, fs),
             !.x_advance = @ + (widths[glyph] - kerning) * fs.n
                             + x_offset * fs.d]

RECURSIVE GlyphLoop(_, _, _, _, _)
GlyphLoop(e, run, i, fs, utf8_text) ==
  IF i > run.num_glyphs \/ e.exception # "none" THEN e
  ELSE GlyphLoop(GlyphStep(e, run, i, fs, utf8_text), run, i + 1, fs, utf8_text)

\* One pass of `while run != ffi.NULL`
RunStep(e, run, fs, utf8_text) ==
  LET font == run.font
      changed == FontChanged(font, e.last_font)
      entered ==
        [e EXCEPT
           !.fonts = add_font(@, font),
           !.ops = IF changed
                   THEN @ \o (IF e.string # <<>> THEN <<ShowText(e.string)>>
                              ELSE <<>>)
                          \o <<SetFontSize(font, IF FontBitmap(font)
                                                 THEN [n |-> 1, d |-> 1]
                                                 ELSE fs)>>
                   ELSE @,
           !.string = (IF changed THEN <<>> ELSE @) \o <<LT>>,
           !.last_font = font]
      walked == GlyphLoop(entered, run, 1, fs, utf8_text)
  IN IF walked.exception # "none" THEN walked
     ELSE [walked EXCEPT !.string = CloseList(@)]

RECURSIVE RunLoop(_, _, _, _)
RunLoop(e, runs, fs, utf8_text) ==
  IF runs = <<>> \/ e.exception # "none" THEN e
  ELSE RunLoop(RunStep(e, runs[1], fs, utf8_text), Tail(runs), fs, utf8_text)

\* draw_first_line from `utf8_text = ...` to `return emojis`
EncodeLine(fonts, writes, first_line, text, fs) ==
  LET start == [string |-> <<>>, last_font |-> NoFont,
                previous_utf8_position |-> 0, x_advance |-> 0,
                emojis |-> <<>>, ops |-> <<Op("set_text_matrix")>>,
                fonts |-> fonts, writes |-> writes, exception |-> "none"]
      walked == RunLoop(start, first_line.runs, fs, Utf8Encode(text))
  IN IF walked.exception # "none" THEN walked
     ELSE [walked EXCEPT !.ops = @ \o <<ShowText(walked.string)>>]

(***************************************************************************)
(* draw_text and draw_first_line around the shaping engine                 *)
(***************************************************************************)
\* block_ellipsis: 'none', 'auto' or ('string', value)
BlockNone == [kind |-> "none"]
BlockAuto == [kind |-> "auto"]
BlockString(value) == [kind |-> "string", value |-> value]

\* AssertFontSize with the assertion off
AssertFontSizeOff(fs) == TRUE
\* `assert textbox.style['font_size']`
AssertFontSize(fs) == fs.n # 0

\* draw_text_decoration: one draw_line
draw_text_decoration(kind) == <<DrawLine(kind)>>

\* draw_emojis: each image under its own transform, in a saved state
RECURSIVE draw_emojis(_)
draw_emojis(emojis) ==
  IF emojis = <<>> THEN <<>>
  ELSE <<Op("push_state"),
         [op |-> "transform", a |-> emojis[1].a, d |-> emojis[1].d,
          e |-> emojis[1].e, f |-> emojis[1].f],
         [op |-> "draw_image", image |-> emojis[1].image],
         Op("pop_state")>>
       \o draw_emojis(Tail(emojis))

\* layout.set_text(text) and the other calls on the Pango layout
LayoutCall(layout, name) == [layout EXCEPT !.calls = Append(@, <<name>>)]
set_text(layout, text) ==
  [layout EXCEPT !.text = text, !.calls = Append(@, <<"set_text", text>>)]

\* FitCandidate that keeps the ellipsis
FitCandidateWithEllipsis(text, ellipsis) == text
\* the text a word is dropped from: the layout text without the ellipsis
FitCandidate(text, ellipsis) == SliceToNeg(text, Len(ellipsis))

\* AfterFirstLine that draws the emojis before end_text
AfterFirstLineEmojisInText(w, emojis) ==
  [w EXCEPT
     !.pc = "returned",
     !.emojis = emojis,
     !.stream = @ \o draw_emojis(emojis) \o <<Op("end_text")>>
                  \o (IF "line-through" \in w.call.textbox.text_decoration_line
                      THEN draw_text_decoration("line-through") ELSE <<>>),
     !.layout = LayoutCall(@, "deactivate")]
\* draw_text after draw_first_line has returned: end of the text object,
\* emojis, line through
AfterFirstLine(w, emojis) ==
  [w EXCEPT
     !.pc = "returned",
     !.emojis = emojis,
     !.stream = @ \o <<Op("end_text")>> \o draw_emojis(emojis)
                  \o (IF "line-through" \in w.call.textbox.text_decoration_line
                      THEN draw_text_decoration("line-through") ELSE <<>>),
     !.layout = LayoutCall(@, "deactivate")]

Raise(w, exception) == [w EXCEPT !.pc = "raised", !.exception = exception]

\* draw_first_line up to its first call of get_first_line
DrawFirstLineEnter(w) ==
  LET textbox == w.call.textbox
      block_ellipsis == w.call.block_ellipsis
      single == LayoutCall(w.layout, "set_single_paragraph_mode")
      sized == LayoutCall(single, "set_width")
      ellipsis == IF block_ellipsis.kind = "auto" THEN <<HELLIP>>
                  ELSE block_ellipsis.value
      hyphen == textbox.hyphenate_character
      last_word_end ==
        get_last_word_end(SliceToNeg(w.layout.text, Len(hyphen)))
      new_text ==
        IF EndsWith(w.layout.text, hyphen) /\ Truthy(last_word_end)
        THEN SliceTo(w.layout.text, last_word_end)
        ELSE w.layout.text
  IN IF IsBlank(textbox.text) THEN AfterFirstLine(w, <<>>)
     ELSE IF BelowPrecision(textbox.font_size) THEN AfterFirstLine(w, <<>>)
     ELSE IF w.call.text_overflow = "ellipsis" \/ block_ellipsis.kind # "none"
     THEN IF w.layout.max_width = None
          THEN Raise([w EXCEPT !.layout = single], "AssertionError")
          ELSE IF w.call.text_overflow = "ellipsis"
          THEN [w EXCEPT
                  !.pc = "get_first_line",
                  !.layout = LayoutCall(LayoutCall(sized, "set_ellipsize"),
                                        "get_first_line")]
          ELSE [w EXCEPT
                  !.pc = "get_first_line",
                  !.ellipsis = ellipsis,
                  !.layout = LayoutCall(set_text(sized, new_text \o ellipsis),
                                        "get_first_line")]
     ELSE [w EXCEPT !.pc = "get_first_line",
                    !.layout = LayoutCall(single, "get_first_line")]

\* no first line yet
NoLine == [runs |-> <<>>, index |-> None]

\* draw_text(stream, textbox, offset_x, text_overflow, block_ellipsis) up to
\* the first answer it needs from the shaping engine
draw_text(w, textbox, text_overflow, block_ellipsis) ==
  LET called ==
        [w EXCEPT
           !.pc = "draw_text",
           !.exception = "none",
           !.call = [textbox |-> textbox, text_overflow |-> text_overflow,
                     block_ellipsis |-> block_ellipsis],
           !.layout = [text |-> textbox.text, calls |-> <<>>,
                       max_width |-> textbox.max_width],
           !.ellipsis = Unbound,
           !.first_line = NoLine,
           !.emojis = <<>>,
           !.mark = Len(w.stream)]
      lines == textbox.text_decoration_line
  IN IF ~AssertFontSize(textbox.font_size)
     THEN Raise(called, "AssertionError")
     ELSE IF textbox.visibility # "visible"
     THEN [called EXCEPT !.pc = "returned"]
     ELSE DrawFirstLineEnter(
            [called EXCEPT
               !.stream = @ \o (IF "overline" \in lines
                                THEN draw_text_decoration("overline")
                                ELSE <<>>)
                            \o (IF "underline" \in lines
                                THEN draw_text_decoration("underline")
                                ELSE <<>>)
                            \o <<Op("set_color_rgb"), Op("set_alpha"),
                                 Op("begin_text")>>,
               !.layout = LayoutCall(@, "reactivate")])

\* draw_first_line from an answer of get_first_line (fit characters on the
\* first line) to its next call of get_first_line, or to the end of draw_text
Resume(w, fit) ==
  LET fs == w.call.textbox.font_size
      line == FirstLine(w.layout.text, fit, fs)
      last_word_end == get_last_word_end(FitCandidate(w.layout.text, w.ellipsis))
      new_text == SliceTo(w.layout.text, last_word_end)
      e == EncodeLine(w.fonts, w.writes, line, w.layout.text, fs)
      drawn == [w EXCEPT !.first_line = line, !.stream = @ \o e.ops,
                         !.fonts = e.fonts, !.writes = e.writes]
  IN IF w.call.block_ellipsis.kind # "none" /\ Truthy(line.index)
        /\ w.ellipsis = Unbound
     THEN Raise(w, "UnboundLocalError")
     ELSE IF w.call.block_ellipsis.kind # "none" /\ Truthy(line.index)
             /\ last_word_end # None
     THEN [w EXCEPT
             !.first_line = line,
             !.layout = LayoutCall(set_text(@, new_text \o w.ellipsis),
                                   "get_first_line")]
     ELSE IF e.exception # "none" THEN Raise(drawn, e.exception)
     ELSE AfterFirstLine(drawn, e.emojis)

\* a whole draw when the engine gives the same answer to every call
RECURSIVE Complete(_, _)
Complete(w, fit) ==
  IF w.pc = "get_first_line" THEN Complete(Resume(w, fit), fit) ELSE w

(***************************************************************************)
(* State                                                                   *)
(***************************************************************************)
VARIABLES
  pc,         \* "ready", "get_first_line", "returned" or "raised"
  exception,  \* the exception draw_text ended with, "none" otherwise
  fonts,      \* stream's registry: font -> FontResource (widths, cmap)
  stream,     \* the operators written to the stream
  layout,     \* textbox.pango_layout: text, max_width, calls made on it
  call,       \* arguments of the current draw_text call
  ellipsis,   \* local variable of draw_first_line
  first_line, \* local variable of draw_first_line (with index)
  emojis,     \* value returned by draw_first_line
  writes,     \* the cache entries assigned, in order
  mark,       \* length of the stream when draw_text was called
  other,      \* a second document that draws the same textboxes
  queue,      \* the textboxes the two documents draw
  step        \* how many of them are drawn

vars == <<pc, exception, fonts, stream, layout, call, ellipsis, first_line,
          emojis, writes, mark, other, queue, step>>

NoCall == [textbox |-> [text |-> <<>>, font_size |-> [n |-> 1, d |-> 1],
                        visibility |-> "visible",
                        text_decoration_line |-> {},
                        hyphenate_character |-> <<HYPHEN>>,
                        max_width |-> None],
           text_overflow |-> "clip", block_ellipsis |-> BlockNone]
\* a new document: nothing registered, nothing drawn
Fresh == [pc |-> "ready", exception |-> "none", fonts |-> EmptyMap,
          stream |-> <<>>,
          layout |-> [text |-> <<>>, calls |-> <<>>, max_width |-> None],
          call |-> NoCall, ellipsis |-> Unbound, first_line |-> NoLine,
          emojis |-> <<>>,
          writes |-> <<>>, mark |-> 0]
World == [pc |-> pc, exception |-> exception, fonts |-> fonts,
          stream |-> stream, layout |-> layout, call |-> call,
          ellipsis |-> ellipsis, first_line |-> first_line,
          emojis |-> emojis, writes |-> writes,
          mark |-> mark]
IsWorld(w) ==
  /\ pc = w.pc
  /\ exception = w.exception
  /\ fonts = w.fonts
  /\ stream = w.stream
  /\ layout = w.layout
  /\ call = w.call
  /\ ellipsis = w.ellipsis
  /\ first_line = w.first_line
  /\ emojis = w.emojis
  /\ writes = w.writes
  /\ mark = w.mark
Become(w) ==
  /\ pc' = w.pc
  /\ exception' = w.exception
  /\ fonts' = w.fonts
  /\ stream' = w.stream
  /\ layout' = w.layout
  /\ call' = w.call
  /\ ellipsis' = w.ellipsis
  /\ first_line' = w.first_line
  /\ emojis' = w.emojis
  /\ writes' = w.writes
  /\ mark' = w.mark

(***************************************************************************)
(* Inputs                                                                  *)
(***************************************************************************)
EllipsisStrings == {<<>>, <<"a", HYPHEN>>}
BlockEllipses == {BlockNone, BlockAuto} \cup
                 {BlockString(v) : v \in EllipsisStrings}
TextOverflows == {"clip", "ellipsis"}
DecorationLines == {{}, {"overline", "underline", "line-through"}}
TextBoxes ==
  [text : Texts, font_size : FontSizes, visibility : {"visible", "hidden"},
   text_decoration_line : DecorationLines,
   hyphenate_character : {<<HYPHEN>>}, max_width : {100}]
\* answers of the shaping engine: characters on the first line
Fits == {1, 2, MaxLen + 2}

(***************************************************************************)
(* One document: a draw_text call and the answers of the shaping engine    *)
(***************************************************************************)
Init ==
  /\ IsWorld(Fresh)
  /\ other = Fresh
  /\ queue = <<>>
  /\ step = 0

\* draw_text is called on a textbox
DrawText ==
  /\ pc = "ready"
  /\ \E textbox \in TextBoxes, text_overflow \in TextOverflows,
        block_ellipsis \in BlockEllipses :
       Become(draw_text(World, textbox, text_overflow, block_ellipsis))
  /\ UNCHANGED <<other, queue, step>>

\* the shaping engine answers get_first_line
GetFirstLine ==
  /\ pc = "get_first_line"
  /\ \E fit \in Fits : Become(Resume(World, fit))
  /\ UNCHANGED <<other, queue, step>>

Next == DrawText \/ GetFirstLine

Spec == Init /\ [][Next]_vars

(***************************************************************************)
(* Two documents that draw the same two textboxes in opposite orders       *)
(***************************************************************************)
\* visible textboxes drawn whole at a size the encoder accepts
SharedCalls ==
  {[textbox |-> tb, text_overflow |-> "clip", block_ellipsis |-> BlockNone] :
     tb \in [text : UNION {TextsOfLen(n) : n \in 0..MaxSharedLen},
            font_size : SharedSizes, visibility : {"visible"},
            text_decoration_line : {{}},
            hyphenate_character : {<<HYPHEN>>}, max_width : {100}]}
WholeLine == MaxLen + 2
DrawWhole(w, c) ==
  Complete(draw_text(w, c.textbox, c.text_overflow, c.block_ellipsis),
           WholeLine)

InitOrder ==
  /\ IsWorld(Fresh)
  /\ other = Fresh
  /\ queue \in SharedCalls \X SharedCalls
  /\ step = 0

DrawBoth ==
  /\ step < Len(queue)
  /\ Become(DrawWhole(World, queue[step + 1]))
  /\ other' = DrawWhole(other, queue[Len(queue) - step])
  /\ step' = step + 1
  /\ UNCHANGED queue

NextOrder == DrawBoth

SpecOrder == InitOrder /\ [][NextOrder]_vars

(***************************************************************************)
(* What the properties speak about                                         *)
(***************************************************************************)
\* the operators the current draw_text call has written
Drawn == SubSeq(stream, mark + 1, Len(stream))
\* the text is empty or made of whitespace only
OnlyWhitespace(text) == \A i \in 1..Len(text) : text[i] = TAB
\* the font size n / d is below 1e-6
TinySize(fs) == fs.n * 1000000 < fs.d
\* the call reached draw_first_line: size not zero, textbox visible
Entered ==
  /\ pc # "ready"
  /\ call.textbox.font_size.n # 0
  /\ call.textbox.visibility = "visible"
\* draw_first_line went past its two early returns
Shaped ==
  /\ Entered
  /\ ~OnlyWhitespace(call.textbox.text)
  /\ ~TinySize(call.textbox.font_size)
\* the line was encoded and draw_text returned
Encoded == Shaped /\ pc = "returned"

\* the glyphs of the first line, in order, each with its font
RECURSIVE LineGlyphs(_)
LineGlyphs(runs) ==
  IF runs = <<>> THEN <<>>
  ELSE [k \in 1..runs[1].num_glyphs |->
          [font |-> runs[1].font, info |-> runs[1].glyphs[k]]]
       \o LineGlyphs(Tail(runs))
Line == LineGlyphs(first_line.runs)
Visible(p) ==
  /\ Line[p].info.glyph # PANGO_GLYPH_EMPTY
  /\ (Line[p].info.glyph \div PANGO_GLYPH_UNKNOWN_FLAG) % 2 = 0
Rise(p) == Line[p].info.geometry.y_offset
\* positions of the line whose glyph code is in the string
CodesIn(string) ==
  {string[k].pos : k \in {j \in 1..Len(string) : string[j].t = "glyph"}}
Shows == {i \in 1..Len(Drawn) : Drawn[i].op = "show_text"}
\* the texts given to set_text, in order
SetTexts ==
  LET at == {i \in 1..Len(layout.calls) : layout.calls[i][1] = "set_text"}
      nth[k \in 0..Cardinality(at)] ==
        IF k = 0 THEN <<>>
        ELSE LET i == CHOOSE i \in at :
                        Cardinality({j \in at : j <= i}) = k
             IN Append(nth[k - 1], layout.calls[i][2])
  IN nth[Cardinality(at)]
Called(name) == \E i \in 1..Len(layout.calls) : layout.calls[i][1] = name
IsPrefix(s, t) == Len(s) <= Len(t) /\ s = SubSeq(t, 1, Len(s))
\* a text given to set_text, without the ellipsis appended to it
PreEllipsis(text) == SubSeq(text, 1, Len(text) - Len(ellipsis))

(***************************************************************************)
(* C6                                                                      *)
(***************************************************************************)
\* C6 as stated: a draw_text call on a textbox whose font size is zero or
\* negative ends in the assertion failure and writes no operator.
C6_NonPositiveFontSizeRejected ==
  (pc # "ready" /\ call.textbox.font_size.n <= 0)
    => /\ pc = "raised" /\ exception = "AssertionError"
       /\ Drawn = <<>>

\* C6 amended: a draw_text call on a textbox whose font size is zero ends in
\* the assertion failure, whatever the visibility and the overflow policy,
\* and writes no operator and makes no call on the layout.
C6_ZeroFontSizeRejected ==
  (pc # "ready" /\ call.textbox.font_size.n = 0)
    => /\ pc = "raised" /\ exception = "AssertionError"
       /\ Drawn = <<>>
       /\ layout.calls = <<>>
C6_Witness ==
  /\ pc = "raised"
  /\ call.textbox.font_size.n = 0
  /\ call.textbox.visibility = "visible"
  /\ call.textbox.text_decoration_line # {}
  /\ call.text_overflow = "ellipsis"

(***************************************************************************)
(* C7                                                                      *)
(***************************************************************************)
\* C7: draw_first_line on a textbox whose text is empty or only whitespace,
\* or whose font size is below 1e-6, returns an empty list of emojis, writes
\* nothing between begin_text and end_text, makes no call on the layout
\* (draw_text's reactivate and deactivate are the only ones), leaves the
\* layout text alone and adds nothing to the font registry.
C7_BlankOrTinyIsNoOp ==
  (Entered /\ (OnlyWhitespace(call.textbox.text)
               \/ TinySize(call.textbox.font_size)))
    => /\ pc = "returned"
       /\ emojis = <<>>
       /\ \E i \in 1..(Len(Drawn) - 1) :
            /\ Drawn[i].op = "begin_text" /\ Drawn[i + 1].op = "end_text"
            /\ \A j \in 1..Len(Drawn) :
                 Drawn[j].op \in {"begin_text", "end_text"} => j \in {i, i + 1}
       /\ \A j \in 1..Len(Drawn) :
            Drawn[j].op \notin {"set_text_matrix", "set_font_size",
                                "set_text_rise", "show_text"}
       /\ layout.calls = <<<<"reactivate">>, <<"deactivate">>>>
       /\ layout.text = call.textbox.text
       /\ fonts = EmptyMap
       /\ writes = <<>>
C7_Witness ==
  /\ pc = "returned"
  /\ Entered
  /\ call.textbox.text = <<TAB, TAB>>
  /\ ~TinySize(call.textbox.font_size)
  /\ call.block_ellipsis.kind = "auto"
  /\ call.text_overflow = "clip"

(***************************************************************************)
(* C9                                                                      *)
(***************************************************************************)
\* C9: with text_overflow 'ellipsis', whatever block_ellipsis is and
\* whatever the shaping engine answers, draw_first_line sets the end
\* ellipsize mode, never calls set_text and ends without an exception.
C9_EllipsisDelegated ==
  (Shaped /\ call.text_overflow = "ellipsis")
    => /\ Called("set_ellipsize")
       /\ ~Called("set_text")
       /\ exception = "none"

(***************************************************************************)
(* C2                                                                      *)
(***************************************************************************)
\* C2: in block-ellipsis mode the texts given to set_text, without their
\* ellipsis, are each a prefix of the one before and of the textbox text
\* (no dropped word comes back), and the loop drops words at most as many
\* times as the textbox text has words, whatever the engine answers.
C2_FitLoopShrinks ==
  (pc # "ready" /\ call.block_ellipsis.kind # "none")
    => LET texts == SetTexts
       IN /\ Len(texts) - 1 <= WordCount(call.textbox.text)
          /\ \A i \in 1..Len(texts) :
               IsPrefix(PreEllipsis(texts[i]), call.textbox.text)
          /\ \A i \in 1..(Len(texts) - 1) :
               IsPrefix(PreEllipsis(texts[i + 1]), PreEllipsis(texts[i]))
C2_Witness ==
  /\ pc = "returned"
  /\ call.block_ellipsis.kind = "string"
  /\ Len(ellipsis) = 2
  /\ Len(SetTexts) = 3
  /\ first_line.index # None

(***************************************************************************)
(* C3                                                                      *)
(***************************************************************************)
NumCodes(string) ==
  Cardinality({j \in 1..Len(string) : string[j].t = "glyph"})
\* C3: every visible glyph with a rise is shown by one show_text that holds
\* its code alone, right after a set_text_rise of a nonzero value and right
\* before set_text_rise(0); a show_text of two or more codes holds no glyph
\* with a rise.
C3_RiseIsolated ==
  Encoded =>
    /\ \A p \in 1..Len(Line) :
         (Visible(p) /\ Rise(p) # 0) =>
           \E i \in Shows :
             /\ CodesIn(Drawn[i].string) = {p}
             /\ NumCodes(Drawn[i].string) = 1
             /\ \A j \in Shows \ {i} : p \notin CodesIn(Drawn[j].string)
             /\ i > 1 /\ i < Len(Drawn)
             /\ Drawn[i - 1].op = "set_text_rise" /\ Drawn[i - 1].n # 0
             /\ Drawn[i + 1].op = "set_text_rise" /\ Drawn[i + 1].n = 0
    /\ \A i \in Shows :
         NumCodes(Drawn[i].string) >= 2 =>
           \A p \in CodesIn(Drawn[i].string) : Rise(p) = 0
C3_Witness ==
  /\ Encoded
  /\ Len(Line) = 3
  /\ Rise(1) = 0 /\ Visible(1)
  /\ Rise(2) # 0 /\ Visible(2)
  /\ Rise(3) = 0 /\ Visible(3)
  /\ Line[1].font = Line[3].font

(***************************************************************************)
(* C4                                                                      *)
(***************************************************************************)
KerningAt(p) ==
  Kerning(fonts[Line[p].font].widths[Line[p].info.glyph],
          Line[p].info.geometry.width, Line[p].info.geometry.x_offset,
          call.textbox.font_size)
\* visible, no rise, no kerning
Plain(p) == Visible(p) /\ Rise(p) = 0 /\ KerningAt(p) = 0
\* C4: two glyphs next to each other in the line, both visible, without
\* rise and without kerning, of the same FontResource, have their codes in
\* the same show_text, also when they are in two consecutive runs.
C4_AdjacentPlainGlyphsBatched ==
  Encoded =>
    \A p \in 1..(Len(Line) - 1) :
      (Plain(p) /\ Plain(p + 1) /\ Line[p].font = Line[p + 1].font) =>
        \E i \in Shows : {p, p + 1} \subseteq CodesIn(Drawn[i].string)
C4_Witness ==
  /\ Encoded
  /\ Len(first_line.runs) = 2
  /\ first_line.runs[1].font = first_line.runs[2].font
  /\ first_line.runs[1].num_glyphs = 1
  /\ Plain(1) /\ Plain(2)

(***************************************************************************)
(* C5                                                                      *)
(***************************************************************************)
\* the kerning number written right after the code of glyph p, 0 if none
EmittedKerning(p) ==
  LET i == CHOOSE i \in Shows : p \in CodesIn(Drawn[i].string)
      string == Drawn[i].string
      k == CHOOSE k \in 1..Len(string) :
             string[k].t = "glyph" /\ string[k].pos = p
  IN IF k + 2 <= Len(string) /\ string[k + 1].t = ">"
        /\ string[k + 2].t = "num" /\ string[k + 2].what = "kerning"
     THEN string[k + 2].n ELSE 0
DeclaredWidth(p) == fonts[Line[p].font].widths[Line[p].info.glyph]
\* the line was encoded, all its glyphs are visible and have no rise
ZeroRiseLine ==
  /\ Encoded
  /\ \A p \in 1..Len(Line) : Visible(p) /\ Rise(p) = 0
\* one unit of the per-mille scale, and the values below, are in units of
\* 1 / (PANGO_SCALE * font_size)
Unit == PANGO_SCALE * call.textbox.font_size.n
\* widths[g] - kerning - raw advance of glyph p
WidthGap(p) ==
  (DeclaredWidth(p) - EmittedKerning(p)) * Unit
    - Line[p].info.geometry.width * 1000 * call.textbox.font_size.d
\* x_offset / font_size of glyph p
OffsetOf(p) ==
  Line[p].info.geometry.x_offset * PANGO_SCALE * call.textbox.font_size.d
Abs(x) == IF x < 0 THEN -x ELSE x

\* C5 as stated: over a line of visible glyphs without rise, the sum of the
\* declared widths minus the sum of the kerning numbers is within 1 unit of
\* the sum of the raw advances in per-mille.
C5_WidthConservedWithinOne ==
  ZeroRiseLine =>
    Abs(SumSeq([p \in 1..Len(Line) |-> WidthGap(p)])) <= Unit

\* C5 amended: for each glyph of such a line, the declared width plus the
\* offset (x_offset / font_size) minus the kerning number is less than 1
\* unit away from the raw advance in per-mille; the kerning number includes
\* the offset and is truncated, so over n glyphs the sums differ by less
\* than n units, not by 1.
C5_WidthConservedPerGlyph ==
  ZeroRiseLine =>
    \A p \in 1..Len(Line) : Abs(WidthGap(p) + OffsetOf(p)) < Unit
C5_Witness ==
  /\ ZeroRiseLine
  /\ Len(Line) >= 3
  /\ \E p \in 1..Len(Line) : Line[p].info.geometry.x_offset # 0
  /\ \E p \in 1..Len(Line) :
       EmittedKerning(p) # 0 /\ Line[p].info.geometry.x_offset = 0
  /\ Abs(SumSeq([p \in 1..Len(Line) |-> WidthGap(p)])) > Unit

(***************************************************************************)
(* C10                                                                     *)
(***************************************************************************)
\* where an operator belongs in a draw_text call
Phase(o) ==
  CASE o.op = "draw_line" -> IF o.kind = "line-through" THEN 7 ELSE 1
    [] o.op \in {"set_color_rgb", "set_alpha"} -> 2
    [] o.op = "begin_text" -> 3
    [] o.op \in {"set_text_matrix", "set_font_size", "set_text_rise",
                 "show_text"} -> 4
    [] o.op = "end_text" -> 5
    [] o.op \in {"push_state", "transform", "draw_image", "pop_state"} -> 6
\* C10: a draw_text call on a visible textbox that returns has written, in
\* this order: the overline and underline, begin_text, the text operators,
\* the one end_text, the emoji transforms and images, the line through.
C10_OperatorOrder ==
  (pc = "returned" /\ call.textbox.visibility = "visible") =>
    /\ \A i, j \in 1..Len(Drawn) : i < j => Phase(Drawn[i]) <= Phase(Drawn[j])
    /\ Cardinality({i \in 1..Len(Drawn) : Drawn[i].op = "begin_text"}) = 1
    /\ Cardinality({i \in 1..Len(Drawn) : Drawn[i].op = "end_text"}) = 1
C10_Witness ==
  /\ Encoded
  /\ Len(emojis) >= 1
  /\ call.textbox.text_decoration_line # {}
  /\ \E i \in Shows : NumCodes(Drawn[i].string) >= 1
  /\ \E i \in 1..Len(Drawn) : Drawn[i].op = "set_text_rise"

(***************************************************************************)
(* C1                                                                      *)
(***************************************************************************)
Caches == {"widths", "cmap"}
\* every entry of the registry f1 is in f2 with the same value
KeptIn(f1, f2) ==
  \A face \in DOMAIN f1 :
    /\ face \in DOMAIN f2
    /\ \A cache \in Caches :
         \A g \in DOMAIN f1[face][cache] :
           /\ g \in DOMAIN f2[face][cache]
           /\ f2[face][cache][g] = f1[face][cache][g]
NoRepeat(s) == \A i, j \in 1..Len(s) : s[i] = s[j] => i = j
\* C1: no cache entry is assigned twice, and a draw leaves every entry that
\* exists with its value, also when the same textbox is drawn again.
C1_EntriesWrittenOnce ==
  [](NoRepeat(writes)) /\ [][KeptIn(fonts, fonts')]_vars
C1_Witness ==
  /\ step = 2
  /\ queue[1].textbox.text = <<"a">>
  /\ queue[2].textbox.text = <<TAB, "a">>
  /\ queue[1].textbox.font_size # queue[2].textbox.font_size
  /\ fonts["F1"].cmap[1] = <<"a">>

(***************************************************************************)
(* C8                                                                      *)
(***************************************************************************)
\* C8 as stated: once both documents have drawn the same textboxes, in
\* opposite orders, their font registries are equal.
C8_OrderIndependent ==
  (step > 0 /\ step = Len(queue)) => fonts = other.fonts

\* the entry of a registry for a glyph, <<>> if there is none
Entry(registry, face, cache, g) ==
  IF face \in DOMAIN registry /\ g \in DOMAIN registry[face][cache]
  THEN <<registry[face][cache][g]>> ELSE <<>>
Glyphs == {CharShape(c).glyph : c \in Alphabet \cup {HELLIP}}
\* Extent of the order dependence found for C8: an entry is the value
\* computed by the first draw that meets the glyph.  For every glyph on
\* which the two textboxes, each drawn alone, compute the same entry (or
\* that only one of them holds), the two orders end with the same widths
\* and cmap entry; only for the other glyphs (cmap is the text slice of the
\* first encounter, which holds the skipped empty glyphs before it) does
\* the order decide.
C8_OrderIndependentWhereDrawsAgree ==
  (step = 2 /\ Len(queue) = 2) =>
    LET alone1 == DrawWhole(Fresh, queue[1]).fonts
        alone2 == DrawWhole(Fresh, queue[2]).fonts
    IN \A face \in Faces, cache \in Caches, g \in Glyphs :
         (\/ Entry(alone1, face, cache, g) = <<>>
          \/ Entry(alone2, face, cache, g) = <<>>
          \/ Entry(alone1, face, cache, g) = Entry(alone2, face, cache, g))
           => Entry(fonts, face, cache, g) = Entry(other.fonts, face, cache, g)
C8_AgreeingDrawsReached ==
  /\ step = 2
  /\ queue[1].textbox.text = <<"a">>
  /\ queue[2].textbox.text = <<"a", HYPHEN>>
  /\ queue[1].textbox.font_size # queue[2].textbox.font_size
  /\ fonts = other.fonts
  /\ 3 \in DOMAIN fonts["F1"].cmap
====
